---- MODULE Spec2Model ----
(***************************************************************************)
(* A model of src/main.py: the CSV-to-dataclass reader.                    *)
(*                                                                         *)
(*   sanitize_field_name   (lines 12-35)  header token -> identifier       *)
(*   maybe_float           (lines 38-48)  cell -> float or the cell        *)
(*   create_dataclass_from_csv (51-91)    the two-pass load                *)
(*                                                                         *)
(* A Python str is a sequence of characters; a character is a one-element  *)
(* TLA+ string, a non-ASCII character being written by its code point      *)
(* ("U+00E4" is a-umlaut).                                                 *)
(*                                                                         *)
(* Three specifications share the variables:                               *)
(*   Spec          one call of create_dataclass_from_csv                   *)
(*   SpecSanitize  sanitize_field_name applied to every bounded token      *)
(*   SpecCoerce    maybe_float applied to every bounded cell string        *)
(***************************************************************************)
EXTENDS Integers, Sequences, FiniteSets

VARIABLES
    \* ---- create_dataclass_from_csv ----
    fileExists,            \* whether open(csv_filepath) succeeds
    lines,                 \* the rows of the file read so far (a row: sequence of cells)
    eof,                   \* TRUE once the file is known to end after Len(lines) rows
    pc,                    \* the statement the call is at (or ended at)
    open,                  \* the file handles currently open
    line_num,              \* reader.line_num: rows the current reader has consumed
    original_field_names,  \* local of line 63
    field_names,           \* local of line 65 (the names only)
    DynamicDataClass,      \* the fields of the class made at line 68
    result,                \* local of line 75
    src_lines,             \* history: the line each element of result was built from
    outcome,               \* "running", "returned" or "raised"
    exc,                   \* the exception raised, "" if none
    retval,                \* what the caller received: given, and the list
    \* ---- sanitize_field_name alone ----
    sanIn, sanOut,
    \* ---- maybe_float alone ----
    cellIn, cellOut

pipeVars == <<fileExists, lines, eof, pc, open, line_num, original_field_names,
              field_names, DynamicDataClass, result, src_lines, outcome, exc, retval>>
sanVars  == <<sanIn, sanOut>>
cellVars == <<cellIn, cellOut>>
vars     == <<pipeVars, sanVars, cellVars>>

(***************************************************************************)
(* Bounds of the model.                                                    *)
(***************************************************************************)
MaxTokLen == 3
MaxCellLen == 3
MaxCols == 2
MaxLines == 4

(***************************************************************************)
(* Characters.                                                             *)
(***************************************************************************)
AsciiDigits == {"0", "1", "2", "3", "4", "5", "6", "7", "8", "9"}
AsciiLower  == {"a", "b", "c", "d", "e", "f", "g", "h", "i", "j", "k", "l", "m",
                "n", "o", "p", "q", "r", "s", "t", "u", "v", "w", "x", "y", "z"}
AsciiUpper  == {"A", "B", "C", "D", "E", "F", "G", "H", "I", "J", "K", "L", "M",
                "N", "O", "P", "Q", "R", "S", "T", "U", "V", "W", "X", "Y", "Z"}
AsciiLetters == AsciiLower \cup AsciiUpper

\* Characters outside [0-9] for which str.isdigit() is True:
\* superscript two and ARABIC-INDIC DIGIT THREE.
UnicodeDigits == {"U+00B2", "U+0663"}

\* str.isdigit() of one character (line 22).
IsDigitChar(c) == c \in AsciiDigits \cup UnicodeDigits

\* The class [a-zA-Z0-9_] of the pattern at line 32.
IsIdentChar(c) == c \in AsciiLetters \cup AsciiDigits \cup {"_"}

(***************************************************************************)
(* sanitize_field_name, lines 12-35.                                       *)
(***************************************************************************)

\* The dict of lines 25-28, in insertion order: a-umlaut, o-umlaut,
\* u-umlaut, sharp s, A-umlaut, O-umlaut, U-umlaut.
transliterations ==
    << <<"U+00E4", <<"a", "e">> >>, <<"U+00F6", <<"o", "e">> >>,
       <<"U+00FC", <<"u", "e">> >>, <<"U+00DF", <<"s", "s">> >>,
       <<"U+00C4", <<"A", "e">> >>, <<"U+00D6", <<"O", "e">> >>,
       <<"U+00DC", <<"U", "e">> >> >>

\* str.replace(old, new) for a one-character old.
RECURSIVE StrReplace(_, _, _)
StrReplace(s, old, new) ==
    IF s = <<>> THEN <<>>
    ELSE (IF Head(s) = old THEN new ELSE <<Head(s)>>) \o StrReplace(Tail(s), old, new)

\* The loop of lines 29-30 over the first n entries of the dict.
RECURSIVE Transliterate(_, _)
Transliterate(s, n) ==
    IF n = 0 THEN s
    ELSE StrReplace(Transliterate(s, n - 1),
                    transliterations[n][1], transliterations[n][2])

\* re.sub(r'[^a-zA-Z0-9_]', '_', s), line 32.
ReplaceInvalid(s) == [i \in 1..Len(s) |-> IF IsIdentChar(s[i]) THEN s[i] ELSE "_"]

\* The end (exclusive) of the run of underscores that starts at i.
RECURSIVE RunEnd(_, _)
RunEnd(s, i) == IF i <= Len(s) /\ s[i] = "_" THEN RunEnd(s, i + 1) ELSE i

\* re.sub(r'__+', '_', s), line 33: leftmost, greedy, non-overlapping.
RECURSIVE CollapseFrom(_, _)
CollapseFrom(s, i) ==
    IF i > Len(s) THEN <<>>
    ELSE IF s[i] = "_" /\ RunEnd(s, i) - i >= 2
         THEN <<"_">> \o CollapseFrom(s, RunEnd(s, i))
         ELSE <<s[i]>> \o CollapseFrom(s, i + 1)

CollapseUnderscores(s) == CollapseFrom(s, 1)

\* Lines 22-23: the marker prepended to a name that starts with a digit.
\* field_name[0] of an empty name raises IndexError: see SanitizeRaises.
DigitGuard(s) == IF IsDigitChar(s[1]) THEN <<"F">> \o s ELSE s

SanitizeRaises(s) == s = <<>>

\* sanitize_field_name without line 33.
sanitize_field_name_NoCollapse(s) ==
    ReplaceInvalid(Transliterate(DigitGuard(s), Len(transliterations)))

\* The value returned for a non-empty name.
sanitize_field_name(s) ==
    CollapseUnderscores(
        ReplaceInvalid(Transliterate(DigitGuard(s), Len(transliterations))))

(***************************************************************************)
(* Python values: a str, a float, None, a list.  Every value carries the   *)
(* same three fields so that any two values can be compared.               *)
(*   float: n = <<class, sign, mantissa, exponent>>, class 0 a finite      *)
(*   number (-1)^sign * mantissa * 10^exponent with mantissa not ending in *)
(*   0, class 1 an infinity, class 2 a NaN.                                *)
(***************************************************************************)
PyStr(s)   == [t |-> "str",   s |-> s,    n |-> <<>>]
PyFloat(x) == [t |-> "float", s |-> <<>>, n |-> x]
PyNone     == [t |-> "None",  s |-> <<>>, n |-> <<>>]
PyList(k)  == [t |-> "list",  s |-> <<>>, n |-> <<k>>]
Raised(e)  == [t |-> "raise", s |-> <<e>>, n |-> <<>>]

(***************************************************************************)
(* float(value) of line 46 for a str: CPython's PyFloat_FromString.        *)
(***************************************************************************)
Whitespace == {" ", "\t", "\n", "\r"}
Signs == {"+", "-"}

DigitSeq == <<"0", "1", "2", "3", "4", "5", "6", "7", "8", "9">>
DigitVal(c) == (CHOOSE i \in 1..10 : DigitSeq[i] = c) - 1

\* Unicode decimal digits are first mapped to ASCII (ARABIC-INDIC DIGIT
\* THREE is one; superscript two is a digit but not a decimal).
ToAscii(s) == [i \in 1..Len(s) |-> IF s[i] = "U+0663" THEN "3" ELSE s[i]]

RECURSIVE StripLeft(_)
StripLeft(s) == IF s # <<>> /\ Head(s) \in Whitespace THEN StripLeft(Tail(s)) ELSE s

RECURSIVE StripRight(_)
StripRight(s) ==
    IF s # <<>> /\ s[Len(s)] \in Whitespace
    THEN StripRight(SubSeq(s, 1, Len(s) - 1)) ELSE s

Strip(s) == StripRight(StripLeft(s))

\* An underscore is allowed only after a digit and only before a digit.
UnderscoresOK(s) ==
    \A i \in 1..Len(s) :
        s[i] = "_" => /\ i > 1 /\ s[i - 1] \in AsciiDigits
                      /\ i < Len(s) /\ s[i + 1] \in AsciiDigits

RemoveUnderscores(s) == SelectSeq(s, LAMBDA c : c # "_")

\* str.lower() on the letters of the words inf, infinity and nan.
ToLower(c) ==
    CASE c = "I" -> "i" [] c = "N" -> "n" [] c = "F" -> "f" [] c = "A" -> "a"
      [] c = "T" -> "t" [] c = "Y" -> "y" [] OTHER -> c

LowerStr(s) == [i \in 1..Len(s) |-> ToLower(s[i])]

\* The index after the run of ASCII digits that starts at i.
RECURSIVE DigitsEnd(_, _)
DigitsEnd(s, i) ==
    IF i <= Len(s) /\ s[i] \in AsciiDigits THEN DigitsEnd(s, i + 1) ELSE i

\* The number written by the digits s[i..j-1], the non-digits among them skipped.
RECURSIVE DigitsValue(_, _, _)
DigitsValue(s, i, j) ==
    IF j <= i THEN 0
    ELSE IF s[j - 1] \in AsciiDigits
         THEN 10 * DigitsValue(s, i, j - 1) + DigitVal(s[j - 1])
         ELSE DigitsValue(s, i, j - 1)

RECURSIVE NumDigits(_)
NumDigits(m) == IF m < 10 THEN 1 ELSE 1 + NumDigits(m \div 10)

RECURSIVE Normalize(_, _)
Normalize(m, e) ==
    IF m = 0 THEN <<0, 0>>
    ELSE IF m % 10 = 0 THEN Normalize(m \div 10, e + 1) ELSE <<m, e>>

\* A double holds magnitudes up to about 1.8e308 and down to about 5e-324:
\* beyond, the parse gives an infinity or a zero.  (Rounding to 53 bits is
\* not modelled: the strings within the bounds have at most MaxCellLen
\* digits.)
Finite(sign, m, e) ==
    LET ne == Normalize(m, e) IN
    IF ne[1] # 0 /\ NumDigits(ne[1]) + ne[2] > 309 THEN <<1, sign, 0, 0>>
    ELSE IF ne[1] # 0 /\ NumDigits(ne[1]) + ne[2] < -323 THEN <<0, sign, 0, 0>>
    ELSE <<0, sign, ne[1], ne[2]>>

NoFloat == [ok |-> FALSE, x |-> <<>>]

\* The parse of the stripped, underscore-free text t, which must be
\* consumed whole: sign, then inf / infinity / nan, or digits [. digits]
\* with at least one digit, then an optional exponent.
ParseDouble(t) ==
    LET n       == Len(t)
        hasSign == n >= 1 /\ t[1] \in Signs
        sign    == IF hasSign /\ t[1] = "-" THEN 1 ELSE 0
        i0      == IF hasSign THEN 2 ELSE 1
        word    == LowerStr(SubSeq(t, i0, n))
        i1      == DigitsEnd(t, i0)
        hasDot  == i1 <= n /\ t[i1] = "."
        i2      == IF hasDot THEN DigitsEnd(t, i1 + 1) ELSE i1
        nInt    == i1 - i0
        nFrac   == IF hasDot THEN i2 - i1 - 1 ELSE 0
        hasE    == i2 <= n /\ t[i2] \in {"e", "E"}
        j0      == i2 + 1
        eSigned == hasE /\ j0 <= n /\ t[j0] \in Signs
        j1      == IF eSigned THEN j0 + 1 ELSE j0
        j2      == DigitsEnd(t, j1)
        expOK   == hasE /\ j2 > j1
        end     == IF expOK THEN j2 ELSE i2
        expVal  == IF ~expOK THEN 0
                   ELSE IF eSigned /\ t[j0] = "-" THEN 0 - DigitsValue(t, j1, j2)
                   ELSE DigitsValue(t, j1, j2)
    IN  IF word \in {<<"i", "n", "f">>, <<"i", "n", "f", "i", "n", "i", "t", "y">>}
        THEN [ok |-> TRUE, x |-> <<1, sign, 0, 0>>]
        ELSE IF word = <<"n", "a", "n">>
        THEN [ok |-> TRUE, x |-> <<2, sign, 0, 0>>]
        ELSE IF nInt + nFrac >= 1 /\ end = n + 1
        THEN [ok |-> TRUE, x |-> Finite(sign, DigitsValue(t, i0, i2), expVal - nFrac)]
        ELSE NoFloat

\* float(s): [ok |-> TRUE, x |-> the number] or ok = FALSE for ValueError.
float(s) ==
    LET t == Strip(ToAscii(s)) IN
    IF UnderscoresOK(t) THEN ParseDouble(RemoveUnderscores(t)) ELSE NoFloat

(***************************************************************************)
(* maybe_float, lines 38-48.  float() of a str that does not parse raises  *)
(* ValueError, which line 47 catches; float() of None or of a list raises  *)
(* TypeError, which nothing catches.                                       *)
(***************************************************************************)
\* maybe_float without the except clause of lines 47-48.
maybe_float_NoExcept(value) ==
    IF value.t = "str"
    THEN IF float(value.s).ok THEN PyFloat(float(value.s).x)
         ELSE Raised("ValueError")
    ELSE Raised("TypeError")

maybe_float(value) ==
    IF value.t = "str"
    THEN IF float(value.s).ok THEN PyFloat(float(value.s).x) ELSE value
    ELSE Raised("TypeError")

(***************************************************************************)
(* The state before create_dataclass_from_csv is called, and the state of  *)
(* the two single-function specifications before their call.               *)
(***************************************************************************)
Pending == [t |-> "pending", s |-> <<>>, n |-> <<>>]

\* The strings of at most n characters over an alphabet.
StringsOver(chars, n) == UNION {[1..k -> chars] : k \in 0..n}

\* The caller has received nothing.
NoValue == [given |-> FALSE, value |-> <<>>]

PipeInit ==
    /\ fileExists \in BOOLEAN
    /\ lines = <<>>
    /\ eof = FALSE
    /\ pc = "open_header"
    /\ open = {}
    /\ line_num = 0
    /\ original_field_names = <<>>
    /\ field_names = <<>>
    /\ DynamicDataClass = <<>>
    /\ result = <<>>
    /\ src_lines = <<>>
    /\ outcome = "running"
    /\ exc = ""
    /\ retval = NoValue

PipeIdle ==
    /\ PipeInit
    /\ fileExists = FALSE

SanIdle  == sanIn = <<>> /\ sanOut = Pending
CellIdle == cellIn = <<>> /\ cellOut = Pending

(***************************************************************************)
(* SpecSanitize: sanitize_field_name on every token of at most MaxTokLen   *)
(* characters: ASCII digit, letters, underscore, a symbol, a-umlaut,       *)
(* U-umlaut, sharp s, superscript two, e-acute.                            *)
(***************************************************************************)
SanChars == {"1", "a", "F", "_", "-", "U+00E4", "U+00DC", "U+00DF", "U+00B2", "U+00E9"}

SanInit ==
    /\ sanIn \in StringsOver(SanChars, MaxTokLen)
    /\ sanOut = Pending
    /\ PipeIdle
    /\ CellIdle

\* The outcome of the call sanitize_field_name(name).
SanitizeResult(name) ==
    IF SanitizeRaises(name) THEN Raised("IndexError")
    ELSE PyStr(sanitize_field_name(name))

SanitizeCall ==
    /\ sanOut = Pending
    /\ sanOut' = SanitizeResult(sanIn)
    /\ UNCHANGED <<sanIn, pipeVars, cellVars>>

SanNext == SanitizeCall

SpecSanitize == SanInit /\ [][SanNext]_vars

(***************************************************************************)
(* SpecCoerce: maybe_float on every cell of at most MaxCellLen characters. *)
(***************************************************************************)
CoerceChars == {"0", "1", "-", ".", "e", "_", " ", "i", "n", "f", "a"}

CoerceInit ==
    /\ cellIn \in StringsOver(CoerceChars, MaxCellLen)
    /\ cellOut = Pending
    /\ PipeIdle
    /\ SanIdle

MaybeFloatCall ==
    /\ cellOut = Pending
    /\ cellOut' = maybe_float(PyStr(cellIn))
    /\ UNCHANGED <<cellIn, pipeVars, sanVars>>

CoerceNext == MaybeFloatCall

SpecCoerce == CoerceInit /\ [][CoerceNext]_vars

(***************************************************************************)
(* Claims about sanitize_field_name (under SpecSanitize).                  *)
(***************************************************************************)

\* The identifier grammar of a field name.
IsFieldName(n) ==
    /\ n # <<>>
    /\ \A i \in 1..Len(n) : n[i] \in AsciiLetters \cup AsciiDigits \cup {"_"}
    /\ n[1] \notin AsciiDigits
    /\ \A i \in 1..(Len(n) - 1) : ~(n[i] = "_" /\ n[i + 1] = "_")

\* C1: for every non-empty header token, sanitize_field_name returns a
\* non-empty string of ASCII letters, ASCII digits and underscores that does
\* not begin with a digit and holds no two consecutive underscores.
C1_SanitizedIsIdentifier ==
    (sanOut # Pending /\ sanIn # <<>>) =>
        (sanOut.t = "str" /\ IsFieldName(sanOut.s))

\* A token that starts with a digit and holds a run of two invalid
\* characters has been sanitized.
C1_Witness ==
    /\ sanOut.t = "str"
    /\ Len(sanIn) >= 3
    /\ sanIn[1] = "1"
    /\ \E i \in 2..(Len(sanIn) - 1) : ~IsIdentChar(sanIn[i]) /\ ~IsIdentChar(sanIn[i + 1])

\* C6: for every name whose first character is a digit, the returned name
\* starts with 'f_' (the marker the docstring of lines 16-17 names).
C6_DigitFirstGetsDocumentedMarker ==
    (sanOut # Pending /\ sanIn # <<>> /\ IsDigitChar(sanIn[1])) =>
        /\ sanOut.t = "str"
        /\ Len(sanOut.s) >= 2
        /\ sanOut.s[1] = "f"
        /\ sanOut.s[2] = "_"

(***************************************************************************)
(* Claims about maybe_float (under SpecCoerce).                            *)
(***************************************************************************)

\* The decimal digits of a number text (ASCII, or a Unicode decimal digit).
NumeralDigits == AsciiDigits \cup {"U+0663"}

\* A run of digits; with us, single underscores may stand between digits.
IsDigitPart(d, us) ==
    /\ d # <<>>
    /\ \A i \in 1..Len(d) :
          \/ d[i] \in NumeralDigits
          \/ /\ us
             /\ d[i] = "_"
             /\ 1 < i /\ i < Len(d)
             /\ d[i - 1] \in NumeralDigits
             /\ d[i + 1] \in NumeralDigits

\* digits, digits "." , "." digits, or digits "." digits.
IsMantissa(m, us) ==
    \E d \in 0..Len(m) :
        LET int  == SubSeq(m, 1, d)
            rest == SubSeq(m, d + 1, Len(m))
            frac == IF rest = <<>> THEN <<>> ELSE Tail(rest)
        IN  /\ rest # <<>> => Head(rest) = "."
            /\ int # <<>> \/ frac # <<>>
            /\ int # <<>> => IsDigitPart(int, us)
            /\ frac # <<>> => IsDigitPart(frac, us)

\* Nothing, or e / E, an optional sign and digits.
IsExponent(x, us) ==
    \/ x = <<>>
    \/ /\ Head(x) \in {"e", "E"}
       /\ LET y == Tail(x) IN
          \/ IsDigitPart(y, us)
          \/ y # <<>> /\ Head(y) \in Signs /\ IsDigitPart(Tail(y), us)

Unsigned(c) == IF c # <<>> /\ Head(c) \in Signs THEN Tail(c) ELSE c

\* An optionally signed decimal literal with optional fraction and exponent.
IsDecimalLiteral(c, us) ==
    \E p \in 1..Len(Unsigned(c)) :
        /\ IsMantissa(SubSeq(Unsigned(c), 1, p), us)
        /\ IsExponent(SubSeq(Unsigned(c), p + 1, Len(Unsigned(c))), us)

\* An optionally signed inf, infinity or nan, in any case.
IsSpecialWord(c) ==
    LowerStr(Unsigned(c)) \in {<<"i", "n", "f">>, <<"n", "a", "n">>,
                               <<"i", "n", "f", "i", "n", "i", "t", "y">>}

\* The text between the leading and the trailing whitespace of s.
Core(s) ==
    LET inner == {i \in 1..Len(s) : s[i] \notin Whitespace} IN
    IF inner = {} THEN <<>>
    ELSE SubSeq(s, CHOOSE a \in inner : \A i \in inner : a <= i,
                   CHOOSE b \in inner : \A i \in inner : i <= b)

\* The whole string is a decimal number (surrounding whitespace allowed, as
\* the host's parse convention has it).
IsDecimalNumber(s) == IsDecimalLiteral(Core(s), FALSE)

\* The strings float() accepts.
AcceptedByFloat(s) == IsDecimalLiteral(Core(s), TRUE) \/ IsSpecialWord(Core(s))

\* C4 (as stated): maybe_float returns a numeric value if and only if the
\* whole string parses as a decimal number, and otherwise returns the
\* original string unchanged, raising nothing.
C4_NumericIffDecimalNumber ==
    cellOut # Pending =>
        /\ cellOut.t \in {"float", "str"}
        /\ cellOut.t = "float" <=> IsDecimalNumber(cellIn)
        /\ cellOut.t = "str" => cellOut = PyStr(cellIn)

\* C4 (amended): maybe_float returns a numeric value if and only if the
\* string, after stripping surrounding whitespace, is an optionally signed
\* decimal literal (single underscores allowed between digits) or one of
\* the words inf, infinity, nan; otherwise it returns the original string
\* unchanged, and it raises nothing for any string.
C4_NumericIffAcceptedByFloat ==
    cellOut # Pending =>
        /\ cellOut.t \in {"float", "str"}
        /\ cellOut.t = "float" <=> AcceptedByFloat(cellIn)
        /\ cellOut.t = "str" => cellOut = PyStr(cellIn)

\* A cell that is one of the special words has become a number.
C4_Witness ==
    /\ cellOut.t = "float"
    /\ IsSpecialWord(Core(cellIn))

(***************************************************************************)
(* The file.  csv.reader yields one row per line (quoted fields spanning   *)
(* lines are outside the model); a blank line yields the empty row.  The   *)
(* file does not change during the call: a row, once read, is kept in      *)
(* lines and the second pass reads it again; a row not read yet is any row *)
(* the file may hold there.                                                *)
(*   line 1: blank, or "sep=," (the cells "sep=" and "")                   *)
(*   line 2: up to MaxCols cells among "", "1", "F1", "x", "_", "if"       *)
(*   later:  up to MaxCols cells among "1", "x"                            *)
(***************************************************************************)
SentinelRows == {<<>>, << <<"s", "e", "p", "=">>, <<>> >>}
HeaderCells  == {<<>>, <<"1">>, <<"F", "1">>, <<"x">>, <<"_">>, <<"i", "f">>}
DataCells    == {<<"1">>, <<"x">>}

RowsAt(i) ==
    IF i = 1 THEN SentinelRows
    ELSE IF i = 2 THEN StringsOver(HeaderCells, MaxCols)
    ELSE StringsOver(DataCells, MaxCols)

BlankRows(j) == [k \in 1..j |-> <<>>]

\* What the file can turn out to be once the row after n is asked for.
FileViews(ls, known, n) ==
    IF n < Len(ls) \/ known THEN {<<ls, known>>}
    ELSE {<<ls, TRUE>>}
         \cup (IF Len(ls) < MaxLines
               THEN {<<Append(ls, r), FALSE>> : r \in RowsAt(Len(ls) + 1)}
               ELSE {})

\* What the file can turn out to be once the next non-blank row after n is
\* asked for.
FileViewsNonBlank(ls, known, n) ==
    IF known \/ \E i \in (n + 1)..Len(ls) : ls[i] # <<>> THEN {<<ls, known>>}
    ELSE {<<ls \o BlankRows(j), TRUE>> : j \in 0..(MaxLines - Len(ls))}
         \cup UNION {{<<(ls \o BlankRows(j)) \o <<r>>, FALSE>> :
                        r \in RowsAt(Len(ls) + j + 1) \ {<<>>}} :
                     j \in 0..(MaxLines - Len(ls) - 1)}

(***************************************************************************)
(* csv.reader and csv.DictReader.                                          *)
(***************************************************************************)

\* next(reader) of a csv.reader that has consumed n rows of ls.
ReaderNext(ls, n) ==
    IF n < Len(ls) THEN [stop |-> FALSE, row |-> ls[n + 1], line_num |-> n + 1]
    ELSE [stop |-> TRUE, row |-> <<>>, line_num |-> n]

\* The loop "while row == []: row = next(self.reader)" of DictReader.
RECURSIVE ReaderNextNonBlank(_, _)
ReaderNextNonBlank(ls, n) ==
    LET r == ReaderNext(ls, n) IN
    IF ~r.stop /\ r.row = <<>> THEN ReaderNextNonBlank(ls, r.line_num) ELSE r

\* A dict is the sequence of its <<key, value>> items in insertion order.
DictKeys(d) == {d[i][1] : i \in 1..Len(d)}
DictGet(d, k) == d[CHOOSE i \in 1..Len(d) : d[i][1] = k][2]
DictSet(d, k, v) ==
    IF k \in DictKeys(d)
    THEN [i \in 1..Len(d) |-> IF d[i][1] = k THEN <<k, v>> ELSE d[i]]
    ELSE Append(d, <<k, v>>)

Min(a, b) == IF a < b THEN a ELSE b

\* dict(zip(keys, values)) over the first n pairs.
RECURSIVE DictZip(_, _, _)
DictZip(keys, values, n) ==
    IF n = 0 THEN <<>>
    ELSE DictSet(DictZip(keys, values, n - 1), keys[n], values[n])

\* for key in fieldnames[lr:]: d[key] = restval, up to index n.
RECURSIVE DictFill(_, _, _, _)
DictFill(d, keys, lr, n) ==
    IF n <= lr THEN d
    ELSE DictSet(DictFill(d, keys, lr, n - 1), keys[n], PyNone)

\* A plausible slip: the cells are matched to the field names from the
\* last column backwards.
RowDict_Reversed(fieldnames, row) ==
    LET lr == Len(row)
        rev == [i \in 1..lr |-> PyStr(row[lr + 1 - i])]
    IN  DictZip([i \in 1..Len(fieldnames) |-> PyStr(fieldnames[i])], rev,
                Min(Len(fieldnames), lr))

\* The dict DictReader.__next__ builds of a non-blank row: cells matched to
\* the field names by position, the surplus cells as a list under the key
\* None (restkey), the missing cells as None (restval).
RowDict(fieldnames, row) ==
    LET keys == [i \in 1..Len(fieldnames) |-> PyStr(fieldnames[i])]
        vals == [i \in 1..Len(row) |-> PyStr(row[i])]
        lf   == Len(fieldnames)
        lr   == Len(row)
        d    == DictZip(keys, vals, Min(lf, lr))
    IN  IF lf < lr THEN DictSet(d, PyNone, PyList(lr - lf))
        ELSE IF lf > lr THEN DictFill(d, keys, lr, lf)
        ELSE d

\* next(reader) of the DictReader of line 78.
DictReaderNext(ls, n, fieldnames) ==
    LET r == ReaderNextNonBlank(ls, n) IN
    [stop |-> r.stop, line_num |-> r.line_num,
     row |-> IF r.stop THEN <<>> ELSE RowDict(fieldnames, r.row)]

(***************************************************************************)
(* dataclasses.make_dataclass and the generated class.                     *)
(***************************************************************************)
Keywords ==
    {<<"F", "a", "l", "s", "e">>, <<"N", "o", "n", "e">>,
     <<"T", "r", "u", "e">>, <<"a", "n", "d">>, <<"a", "s">>,
     <<"a", "s", "s", "e", "r", "t">>, <<"a", "s", "y", "n", "c">>,
     <<"a", "w", "a", "i", "t">>, <<"b", "r", "e", "a", "k">>,
     <<"c", "l", "a", "s", "s">>, <<"c", "o", "n", "t", "i", "n", "u", "e">>,
     <<"d", "e", "f">>, <<"d", "e", "l">>, <<"e", "l", "i", "f">>,
     <<"e", "l", "s", "e">>, <<"e", "x", "c", "e", "p", "t">>,
     <<"f", "i", "n", "a", "l", "l", "y">>, <<"f", "o", "r">>,
     <<"f", "r", "o", "m">>, <<"g", "l", "o", "b", "a", "l">>, <<"i", "f">>,
     <<"i", "m", "p", "o", "r", "t">>, <<"i", "n">>, <<"i", "s">>,
     <<"l", "a", "m", "b", "d", "a">>,
     <<"n", "o", "n", "l", "o", "c", "a", "l">>, <<"n", "o", "t">>,
     <<"o", "r">>, <<"p", "a", "s", "s">>, <<"r", "a", "i", "s", "e">>,
     <<"r", "e", "t", "u", "r", "n">>, <<"t", "r", "y">>,
     <<"w", "h", "i", "l", "e">>, <<"w", "i", "t", "h">>,
     <<"y", "i", "e", "l", "d">>}

\* str.isidentifier() for a string of the characters of the model.
IsIdentifier(n) ==
    /\ n # <<>>
    /\ \A i \in 1..Len(n) : IsIdentChar(n[i])
    /\ n[1] \notin AsciiDigits

\* make_dataclass raises TypeError for a name that is no identifier, is a
\* keyword, or was seen before.
MakeDataclassRaises(names) ==
    \E i \in 1..Len(names) :
        \/ ~IsIdentifier(names[i])
        \/ names[i] \in Keywords
        \/ \E j \in 1..(i - 1) : names[j] = names[i]

\* DynamicDataClass(**row): every field is required and no other keyword is
\* accepted.  An instance is the sequence of its <<name, value>> fields in
\* field order.
ConstructRaises(cls, row) ==
    DictKeys(row) # {PyStr(cls[i]) : i \in 1..Len(cls)}

Construct(cls, row) ==
    [i \in 1..Len(cls) |-> <<cls[i], DictGet(row, PyStr(cls[i]))>>]

\* Line 86: the dict comprehension over row.items().
ConvertRaises(row) == \E i \in 1..Len(row) : maybe_float(row[i][2]).t = "raise"
Convert(row) == [i \in 1..Len(row) |-> <<row[i][1], maybe_float(row[i][2])>>]

(***************************************************************************)
(* create_dataclass_from_csv, lines 51-91: one action per statement.  pc   *)
(* names the statement about to run; when the call ends, pc keeps the      *)
(* statement it ended at.                                                  *)
(***************************************************************************)
Running == outcome = "running"

\* An exception leaves the function: the with blocks it passes through
\* close their handles, h, on the way out, and the caller receives nothing.
Raise(e, h) ==
    /\ outcome' = "raised"
    /\ exc' = e
    /\ open' = open \ h
    /\ UNCHANGED <<pc, retval>>

\* Line 60-61: with open(...) as csvfile: reader = csv.reader(csvfile).
OpenHeader ==
    /\ Running /\ pc = "open_header"
    /\ IF fileExists
       THEN /\ open' = open \cup {"header"}
            /\ line_num' = 0
            /\ pc' = "skip_sentinel"
            /\ UNCHANGED <<outcome, exc, retval>>
       ELSE /\ Raise("FileNotFoundError", {})
            /\ UNCHANGED line_num
    /\ UNCHANGED <<fileExists, lines, eof, original_field_names, field_names,
                   DynamicDataClass, result, src_lines, sanVars, cellVars>>

\* Line 62: _ = next(reader).
SkipSentinel ==
    /\ Running /\ pc = "skip_sentinel"
    /\ \E v \in FileViews(lines, eof, line_num) :
          LET r == ReaderNext(v[1], line_num) IN
          /\ lines' = v[1]
          /\ eof' = v[2]
          /\ IF r.stop
             THEN /\ Raise("StopIteration", {"header"})
                  /\ UNCHANGED line_num
             ELSE /\ line_num' = r.line_num
                  /\ pc' = "read_header"
                  /\ UNCHANGED <<open, outcome, exc, retval>>
    /\ UNCHANGED <<fileExists, original_field_names, field_names,
                   DynamicDataClass, result, src_lines, sanVars, cellVars>>

\* Line 63: original_field_names = next(reader).
ReadHeader ==
    /\ Running /\ pc = "read_header"
    /\ \E v \in FileViews(lines, eof, line_num) :
          LET r == ReaderNext(v[1], line_num) IN
          /\ lines' = v[1]
          /\ eof' = v[2]
          /\ IF r.stop
             THEN /\ Raise("StopIteration", {"header"})
                  /\ UNCHANGED <<line_num, original_field_names>>
             ELSE /\ line_num' = r.line_num
                  /\ original_field_names' = r.row
                  /\ pc' = "sanitize"
                  /\ UNCHANGED <<open, outcome, exc, retval>>
    /\ UNCHANGED <<fileExists, field_names, DynamicDataClass, result,
                   src_lines, sanVars, cellVars>>

\* The same statement in a function that closes nothing explicitly and has
\* no with block.
BuildFieldNames_NoClose ==
    /\ Running /\ pc = "sanitize"
    /\ IF \E i \in 1..Len(original_field_names) :
             SanitizeRaises(original_field_names[i])
       THEN /\ outcome' = "raised"
            /\ exc' = "IndexError"
            /\ UNCHANGED <<field_names, pc, open, retval>>
       ELSE /\ field_names' = [i \in 1..Len(original_field_names) |->
                                  sanitize_field_name(original_field_names[i])]
            /\ pc' = "make_dataclass"
            /\ UNCHANGED <<open, outcome, exc, retval>>
    /\ UNCHANGED <<fileExists, lines, eof, line_num, original_field_names,
                   DynamicDataClass, result, src_lines, sanVars, cellVars>>

\* Line 65 and the end of the with block of line 60: the list of sanitized
\* names; the header handle is closed.
BuildFieldNames ==
    /\ Running /\ pc = "sanitize"
    /\ IF \E i \in 1..Len(original_field_names) :
             SanitizeRaises(original_field_names[i])
       THEN /\ Raise("IndexError", {"header"})
            /\ UNCHANGED field_names
       ELSE /\ field_names' = [i \in 1..Len(original_field_names) |->
                                  sanitize_field_name(original_field_names[i])]
            /\ open' = open \ {"header"}
            /\ pc' = "make_dataclass"
            /\ UNCHANGED <<outcome, exc, retval>>
    /\ UNCHANGED <<fileExists, lines, eof, line_num, original_field_names,
                   DynamicDataClass, result, src_lines, sanVars, cellVars>>

\* make_dataclass with no check for a repeated field name.
MakeDataclass_NoDuplicateCheck ==
    /\ Running /\ pc = "make_dataclass"
    /\ DynamicDataClass' = field_names
    /\ pc' = "open_data"
    /\ UNCHANGED <<open, outcome, exc, retval>>
    /\ UNCHANGED <<fileExists, lines, eof, line_num, original_field_names,
                   field_names, result, src_lines, sanVars, cellVars>>

\* Lines 68-73: DynamicDataClass = make_dataclass(...).
MakeDataclass ==
    /\ Running /\ pc = "make_dataclass"
    /\ IF MakeDataclassRaises(field_names)
       THEN /\ Raise("TypeError", {})
            /\ UNCHANGED DynamicDataClass
       ELSE /\ DynamicDataClass' = field_names
            /\ pc' = "open_data"
            /\ UNCHANGED <<open, outcome, exc, retval>>
    /\ UNCHANGED <<fileExists, lines, eof, line_num, original_field_names,
                   field_names, result, src_lines, sanVars, cellVars>>

\* Lines 75-78: result = []; the file is opened again under a DictReader.
OpenData ==
    /\ Running /\ pc = "open_data"
    /\ result' = <<>>
    /\ open' = open \cup {"data"}
    /\ line_num' = 0
    /\ pc' = "data_skip_sentinel"
    /\ UNCHANGED <<fileExists, lines, eof, original_field_names, field_names,
                   DynamicDataClass, src_lines, outcome, exc, retval,
                   sanVars, cellVars>>

\* Line 79: _ = next(reader), on the DictReader.
DataSkipSentinel ==
    /\ Running /\ pc = "data_skip_sentinel"
    /\ \E v \in FileViewsNonBlank(lines, eof, line_num) :
          LET r == DictReaderNext(v[1], line_num, field_names) IN
          /\ lines' = v[1]
          /\ eof' = v[2]
          /\ IF r.stop
             THEN /\ Raise("StopIteration", {"data"})
                  /\ UNCHANGED line_num
             ELSE /\ line_num' = r.line_num
                  /\ pc' = "data_skip_header"
                  /\ UNCHANGED <<open, outcome, exc, retval>>
    /\ UNCHANGED <<fileExists, original_field_names, field_names,
                   DynamicDataClass, result, src_lines, sanVars, cellVars>>

\* Line 80: next(reader), on the DictReader.
DataSkipHeader ==
    /\ Running /\ pc = "data_skip_header"
    /\ \E v \in FileViewsNonBlank(lines, eof, line_num) :
          LET r == DictReaderNext(v[1], line_num, field_names) IN
          /\ lines' = v[1]
          /\ eof' = v[2]
          /\ IF r.stop
             THEN /\ Raise("StopIteration", {"data"})
                  /\ UNCHANGED line_num
             ELSE /\ line_num' = r.line_num
                  /\ pc' = "for_row"
                  /\ UNCHANGED <<open, outcome, exc, retval>>
    /\ UNCHANGED <<fileExists, original_field_names, field_names,
                   DynamicDataClass, result, src_lines, sanVars, cellVars>>

\* The loop body with the conversion error swallowed: a row that cannot be
\* converted ends the loop and what was built so far is returned.
ForRow_SwallowError ==
    /\ Running /\ pc = "for_row"
    /\ \E v \in FileViewsNonBlank(lines, eof, line_num) :
          LET r == DictReaderNext(v[1], line_num, field_names) IN
          /\ lines' = v[1]
          /\ eof' = v[2]
          /\ IF r.stop \/ ConvertRaises(r.row)
                \/ ConstructRaises(DynamicDataClass, Convert(r.row))
             THEN /\ open' = open \ {"data"}
                  /\ line_num' = r.line_num
                  /\ pc' = "return"
                  /\ UNCHANGED <<result, src_lines, outcome, exc, retval>>
             ELSE /\ result' = Append(result, Construct(DynamicDataClass, Convert(r.row)))
                  /\ src_lines' = Append(src_lines, r.line_num)
                  /\ line_num' = r.line_num
                  /\ UNCHANGED <<pc, open, outcome, exc, retval>>
    /\ UNCHANGED <<fileExists, original_field_names, field_names,
                   DynamicDataClass, sanVars, cellVars>>

\* Lines 83-89: one turn of "for row in reader": the next non-blank row is
\* converted cell by cell, an instance is made of it and appended.  When
\* the reader is exhausted the with block of line 77 ends and the data
\* handle is closed.
ForRow ==
    /\ Running /\ pc = "for_row"
    /\ \E v \in FileViewsNonBlank(lines, eof, line_num) :
          LET r == DictReaderNext(v[1], line_num, field_names) IN
          /\ lines' = v[1]
          /\ eof' = v[2]
          /\ line_num' = r.line_num
          /\ IF r.stop
             THEN /\ open' = open \ {"data"}
                  /\ pc' = "return"
                  /\ UNCHANGED <<result, src_lines, outcome, exc, retval>>
             ELSE IF ConvertRaises(r.row)
                     \/ ConstructRaises(DynamicDataClass, Convert(r.row))
             THEN /\ Raise("TypeError", {"data"})
                  /\ UNCHANGED <<result, src_lines>>
             ELSE /\ result' = Append(result, Construct(DynamicDataClass, Convert(r.row)))
                  /\ src_lines' = Append(src_lines, r.line_num)
                  /\ UNCHANGED <<pc, open, outcome, exc, retval>>
    /\ UNCHANGED <<fileExists, original_field_names, field_names,
                   DynamicDataClass, sanVars, cellVars>>

\* Line 91: return result.
Return ==
    /\ Running /\ pc = "return"
    /\ outcome' = "returned"
    /\ retval' = [given |-> TRUE, value |-> result]
    /\ UNCHANGED <<fileExists, lines, eof, pc, open, line_num,
                   original_field_names, field_names, DynamicDataClass,
                   result, src_lines, exc, sanVars, cellVars>>

\* A read of the open file fails (lines 62, 63, 79, 80, 83): OSError leaves
\* the function through the with block.
ReadFails ==
    /\ Running
    /\ pc \in {"skip_sentinel", "read_header", "data_skip_sentinel",
               "data_skip_header", "for_row"}
    /\ Raise("OSError", IF pc \in {"skip_sentinel", "read_header"}
                        THEN {"header"} ELSE {"data"})
    /\ UNCHANGED <<fileExists, lines, eof, line_num, original_field_names,
                   field_names, DynamicDataClass, result, src_lines,
                   sanVars, cellVars>>

Init == PipeInit /\ SanIdle /\ CellIdle

Next ==
    \/ OpenHeader
    \/ SkipSentinel
    \/ ReadHeader
    \/ BuildFieldNames
    \/ MakeDataclass
    \/ OpenData
    \/ DataSkipSentinel
    \/ DataSkipHeader
    \/ ForRow
    \/ Return
    \/ ReadFails

Spec == Init /\ [][Next]_vars

(***************************************************************************)
(* Claims about create_dataclass_from_csv (under Spec).                    *)
(***************************************************************************)
Terminated == outcome # "running"

\* The record the header row hdr and a data row of as many cells call for.
ExpectedRecord(hdr, row) ==
    [k \in 1..Len(hdr) |->
        <<sanitize_field_name(hdr[k]), maybe_float(PyStr(row[k]))>>]

\* The lines after the first two.
DataLines == 3..Len(lines)

\* C2: for every file with a sentinel line, a header line and M data
\* lines, the call returns exactly M records, the i-th built from the i-th
\* data line.  (Stated for files whose header line and data lines are all
\* non-blank: a blank line is no row to the csv module.)
C2_OneRecordPerDataLine ==
    (outcome = "returned" /\ \A i \in {2} \cup DataLines : lines[i] # <<>>) =>
        /\ Len(retval.value) = Len(lines) - 2
        /\ \A i \in 1..Len(retval.value) : src_lines[i] = i + 2

\* C3: every returned record has exactly the header's N fields in header
\* order, the k-th named sanitize_field_name(header[k]) and holding
\* maybe_float(cell k of its row), a row of N cells; all records of one
\* call share the field list.
C3_RecordsFollowHeader ==
    outcome = "returned" =>
        \A i \in 1..Len(retval.value) :
            LET row == lines[src_lines[i]] IN
            /\ Len(row) = Len(lines[2])
            /\ retval.value[i] = ExpectedRecord(lines[2], row)
            /\ \A j \in 1..Len(retval.value) :
                  /\ Len(retval.value[j]) = Len(retval.value[i])
                  /\ \A k \in 1..Len(retval.value[i]) :
                        retval.value[j][k][1] = retval.value[i][k][1]

\* Two records of two fields each, one holding a number where the other
\* holds text, have been returned.
C3_Witness ==
    /\ outcome = "returned"
    /\ Len(retval.value) = 2
    /\ Len(lines[2]) = 2
    /\ retval.value[1][1][2].t = "float"
    /\ retval.value[2][1][2].t = "str"

\* The line the data pass stands at after its two skips.
DataStart(ls) ==
    ReaderNextNonBlank(ls, ReaderNextNonBlank(ls, 0).line_num).line_num

\* C5: the call returns a collection only when every step succeeded.  If
\* the file cannot be opened or has fewer than two lines the call ends in
\* a failure; a call that ends in a failure hands the caller nothing; a
\* call that returns has read the file to its end and returns one record
\* for every non-blank line after the ones it skipped: never a part of
\* them.
C5_AllOrNothing ==
    /\ (Terminated /\ (~fileExists \/ (eof /\ Len(lines) < 2))) =>
            outcome = "raised"
    /\ outcome = "raised" => (retval = NoValue /\ exc # "")
    /\ outcome = "returned" =>
          /\ retval.given
          /\ fileExists /\ eof /\ Len(lines) >= 2
          /\ retval.value = result
          /\ Len(retval.value) =
                Cardinality({i \in (DataStart(lines) + 1)..Len(lines) :
                                lines[i] # <<>>})

\* A row failed to convert after a record had been built, and the caller
\* received nothing.
C5_Witness ==
    /\ outcome = "raised"
    /\ exc = "TypeError"
    /\ pc = "for_row"
    /\ Len(result) >= 1
    /\ retval = NoValue

\* A non-blank row with fewer cells than the header has columns.
IsShortRow(row) == 0 < Len(row) /\ Len(row) < Len(field_names)

\* C7: a data row with fewer cells than the header has columns is not
\* rejected: no load ends in a failure at such a row.  (Stated for a file
\* whose first line is the sentinel "sep=,".)
C7_ShortRowNotRejected ==
    (outcome = "raised" /\ pc = "for_row" /\ exc = "TypeError"
        /\ lines[1] # <<>>) =>
        ~IsShortRow(lines[line_num])

\* Two tokens of the header sanitize to the same field name.
Collides(hdr) ==
    \E i, j \in 1..Len(hdr) :
        /\ i < j
        /\ hdr[i] # <<>> /\ hdr[j] # <<>>
        /\ sanitize_field_name(hdr[i]) = sanitize_field_name(hdr[j])

\* C8 (as stated): when two header tokens sanitize to the same field name
\* the load does not fail: defining the class of such a header raises
\* nothing.
C8_CollisionDoesNotFail ==
    (Collides(original_field_names) /\ pc = "make_dataclass") =>
        outcome # "raised"

\* C8 (amended): when two header tokens sanitize to the same field name
\* the load fails and returns no collection: make_dataclass, which rejects
\* a repeated name, raises TypeError before the file is opened for the
\* data pass (or sanitize_field_name raises IndexError first, when another
\* header token is empty); no record is built, nothing is overwritten.
C8_CollisionFailsTheLoad ==
    Collides(original_field_names) =>
        /\ pc \in {"sanitize", "make_dataclass"}
        /\ result = <<>> /\ retval = NoValue
        /\ "data" \notin open
        /\ Terminated =>
              /\ outcome = "raised"
              /\ \/ pc = "make_dataclass" /\ exc = "TypeError"
                 \/ /\ pc = "sanitize" /\ exc = "IndexError"
                    /\ \E i \in 1..Len(original_field_names) :
                          original_field_names[i] = <<>>

\* The header "1,F1", both tokens giving F1, has been rejected.
C8_Witness ==
    /\ original_field_names = << <<"1">>, <<"F", "1">> >>
    /\ field_names = << <<"F", "1">>, <<"F", "1">> >>
    /\ outcome = "raised"
    /\ exc = "TypeError"
    /\ pc = "make_dataclass"

\* C9: at most one file handle is open at any moment, and when the call
\* has ended, by return or by a failure in either pass, none is.
C9_HandleDiscipline ==
    /\ Cardinality(open) <= 1
    /\ Terminated => open = {}

\* The data handle is open, the header handle closed, in the middle of the
\* loop.
C9_Witness ==
    /\ Running
    /\ pc = "for_row"
    /\ open = {"data"}
    /\ Len(result) >= 1

\* C10: the data pass discards exactly the two rows the header pass
\* consumed, lines 1 and 2: after its two skips it stands at line 2; the
\* header row is never turned into a record; the row after it, if any and
\* not blank, becomes the first record, and with no such row the result is
\* the empty list.  (Stated for a file whose header line is not blank.)
C10_DataPassSkipsWhatHeaderPassRead ==
    /\ (Running /\ pc = "for_row" /\ result = <<>> /\ lines[2] # <<>>) =>
            line_num = 2
    /\ (outcome = "returned" /\ lines[2] # <<>>) =>
          /\ \A i \in 1..Len(src_lines) : src_lines[i] # 2
          /\ (Len(lines) >= 3 /\ lines[3] # <<>>) =>
                (src_lines # <<>> /\ src_lines[1] = 3)
          /\ Len(lines) = 2 => retval.value = <<>>

====
